---- MODULE Spec2Model ----
(***************************************************************************)
(* Session layer of the Dynamics 365 MCP server's HTTP transport           *)
(* (src/src/transports/http-transport.ts, startHttpTransport).            *)
(*                                                                         *)
(* One state machine: the Express application with its session registry   *)
(* `transports`, the StreamableHTTPServerTransport objects it creates, the *)
(* single protocol Server object every transport is connected to, and the  *)
(* OAuth middleware mounted on /mcp.  One action per route handler; the    *)
(* middleware's `await validateAccessToken` is the only point where a      *)
(* request is suspended on I/O, so it is the only split inside a request.  *)
(* Everything from session resolution to the synchronous part of           *)
(* transport.handleRequest runs in one turn of the event loop.             *)
(*                                                                         *)
(* Specifications:                                                         *)
(*   Spec     the HTTP layer: middleware, /mcp routes, discovery endpoint   *)
(*   SpecEnv  start-up under every setting of the five OAUTH_* variables    *)
(*   SpecV    the token validator (auth/token-validator.ts) and its cache   *)
(*   SpecJ    the validator's signed-token flow, every shape of exp and aud *)
(*   SpecO    the validator's opaque-token flow, empty answers included     *)
(*   SpecD    the tools/call dispatcher (server.ts, tools/*.ts)             *)
(*   SpecR    the session registry under repeated close signals             *)
(*   SpecC    the constructor of D365MCPServer (server.ts)                  *)
(*   SpecX    the VS Code extension's server provider                       *)
(***************************************************************************)
EXTENDS Integers, Sequences, FiniteSets, TLC

VARIABLES processEnv, env, log, tr, transports, serverTransport, issued,
          everRegistered, pending, validatorCalled, last,
          cache, clock, fetchLog, opaqueWait, vres,
          apiCalls, dres, built,
          httpServer, procs, stops, xop

\* What start-up fixes: the settings read from process.env, the ones that
\* are truthy, and the lines written to the console.
config == <<processEnv, env, log>>

\* The token validator module (auth/token-validator.ts): its cache Map, the
\* wall clock it reads, the key-set fetches it has started, the introspection
\* calls it is waiting for, and the value its last finished call resolved to.
validator == <<cache, clock, fetchLog, opaqueWait, vres>>

\* The tools/call dispatcher (server.ts, tools/index.ts and the tool
\* modules): the number of calls made to the Dynamics 365 API client, and
\* the reply to the last request dispatched.
dispatcher == <<apiCalls, dres>>

\* What `new D365MCPServer()` produced (server.ts, the constructor).
construction == <<built>>

\* The VS Code extension's server provider (providers/mcp-server-provider.ts):
\* the tracked httpServer reference, the child processes spawned so far, the
\* stopHttpServer calls waiting for a process to exit, and the operation
\* carried out by the last step.
extension == <<httpServer, procs, stops, xop>>

\* State the /mcp request handlers of this model never write.  The
\* middleware's call of the validator is represented by its verdict alone;
\* the validator itself is specified by SpecV, the dispatcher by SpecD.
apart == <<config, validator, dispatcher, construction, extension>>

vars == <<config, tr, transports, serverTransport, issued, everRegistered,
          pending, validatorCalled, last, validator, dispatcher,
          construction, extension>>

(* ------------------------------ bounds --------------------------------- *)

\* Transport objects created during one run (one per accepted init branch).
MaxTransports == 2

\* Requests suspended inside the middleware on `await validateAccessToken`.
MaxPending == 1

\* Ticks of the validator's clock.
MaxClock == 2

\* Key-set fetches started during one run.
MaxFetches == 2

\* Validator calls suspended on a network request at the same time.
MaxWaiting == 2

\* Calls made to the Dynamics 365 API client during one run.
MaxApiCalls == 3

\* Child processes the extension spawns during one run.
MaxProcs == 3

\* stopHttpServer calls waiting for an exit at the same time.
MaxStops == 2

(* --------------------------- values and inputs ------------------------- *)

\* JavaScript `undefined`: an absent header, an unset transport.sessionId.
Undefined == "<undefined>"

\* Values randomUUID() can return.
UUIDs == {"uuid-" \o ToString(i) : i \in 1..MaxTransports}

\* Property names every `{}` object inherits from Object.prototype.
ProtoKeys == {"constructor"}

\* mcp-session-id header values sent by clients: absent, empty, a property
\* name inherited by the registry object, a string that is never a session
\* id, and every string randomUUID() can return.
HeaderSids == {Undefined, "", "constructor", "no-such-session"} \cup UUIDs

\* JSON-RPC methods in the body of a POST.
BodyMethods == {"initialize", "tools/list", "tools/call"}

\* Authorization header: absent, a non-Bearer scheme, a Bearer token.
NoAuthHeader == <<>>
AuthHeaders == {NoAuthHeader, <<"Basic ", "dXNlcg==">>, <<"Bearer ", "tok">>}

\* The five settings that switch authentication on.
RequiredOAuthEnv == {"OAUTH_MCP_RESOURCE", "OAUTH_AUTH_URL", "OAUTH_BASE_URL",
                     "OAUTH_JWKS_URL", "OAUTH_TOKEN_URL"}

\* Start-up configurations explored: complete, and one setting missing.
EnvChoices == {RequiredOAuthEnv, RequiredOAuthEnv \ {"OAUTH_TOKEN_URL"}}

\* process.env.X for one setting: unset, set to the empty string, or set to
\* a value (written here as the setting's own name behind "value-of-").
ValueOf(k) == "value-of-" \o k
EnvValuesOf(k) == {Undefined, "", ValueOf(k)}

\* process.env with exactly the settings in c set to a value.
Settings(c) == [k \in RequiredOAuthEnv |-> IF k \in c THEN ValueOf(k)
                                          ELSE Undefined]

\* Every way the five settings can be unset, empty or set.
AllSettings == {pe \in [RequiredOAuthEnv -> {Undefined, ""} \cup
                          {ValueOf(k) : k \in RequiredOAuthEnv}] :
                  \A k \in RequiredOAuthEnv : pe[k] \in EnvValuesOf(k)}

\* Variant: a setting counts as soon as it is defined, even when empty.
TruthyKeys_Defined(pe) == {k \in DOMAIN pe : pe[k] # Undefined}

\* The settings whose value is truthy in `a && b && ...`: a string that is
\* neither undefined nor empty.
TruthyKeys(pe) == {k \in DOMAIN pe : pe[k] # Undefined /\ pe[k] # ""}

\* The console lines of start-up: console.log of the posture, and the
\* console.warn of the else branch that skips the middleware.
LogEnabled == "MCP HTTP server: OAuth authentication ENABLED"
LogDisabled == "MCP HTTP server: OAuth authentication DISABLED"
WarnDisabled == "MCP OAuth authentication is DISABLED"
StartupLog(enabled) == IF enabled THEN {LogEnabled}
                       ELSE {LogDisabled, WarnDisabled}

\* The two request paths the application routes.
McpPath == "/mcp"
DiscoveryPath == "/mcp/.well-known/oauth-protected-resource"

\* `ok` is whether the POST passes the transport's own header/body checks
\* (Accept, Content-Type, JSON-RPC shape).
PostRequests == [verb : {"POST"}, sid : HeaderSids, method : BodyMethods,
                 ok : BOOLEAN, auth : AuthHeaders, path : {McpPath}]
GetRequests == [verb : {"GET"}, sid : HeaderSids, method : {"-"},
                ok : {TRUE}, auth : AuthHeaders, path : {McpPath}]
DeleteRequests == [verb : {"DELETE"}, sid : HeaderSids, method : {"-"},
                   ok : {TRUE}, auth : AuthHeaders, path : {McpPath}]

\* GET of the protected-resource metadata; it carries no session header.
DiscoveryRequests == [verb : {"GET"}, sid : {Undefined}, method : {"-"},
                      ok : {TRUE}, auth : AuthHeaders, path : {DiscoveryPath}]

Requests == PostRequests \cup GetRequests \cup DeleteRequests
               \cup DiscoveryRequests

(* ------------------------- the session registry ------------------------ *)

\* Results of a property read on the registry object that are not transports.
NoTransport == 0
InheritedValue == -1

EmptyRegistry == [k \in {} |-> NoTransport]

\* Variant: the session id is ignored and the first stored transport is used.
Lookup_AnyTransport(reg, sid) ==
    IF DOMAIN reg # {} THEN reg[CHOOSE k \in DOMAIN reg : TRUE]
    ELSE NoTransport

\* Variant: an id that is not registered falls back to the session that is
\* the only one registered.
Lookup_Fallback(reg, sid) ==
    IF sid \in DOMAIN reg THEN reg[sid]
    ELSE IF Cardinality(DOMAIN reg) = 1
    THEN reg[CHOOSE k \in DOMAIN reg : TRUE]
    ELSE IF sid \in ProtoKeys THEN InheritedValue
    ELSE NoTransport

\* transports[sessionId]: an own key gives the stored transport, a name on
\* Object.prototype gives the inherited (truthy) value, anything else
\* undefined.
Lookup(reg, sid) ==
    IF sid \in DOMAIN reg THEN reg[sid]
    ELSE IF sid \in ProtoKeys THEN InheritedValue
    ELSE NoTransport

\* JavaScript truthiness of a header value and of a registry read.
TruthySid(sid) == sid # Undefined /\ sid # ""
TruthyValue(v) == v # NoTransport

\* Variant: every key ends up bound to the transport created last.
OnSessionInitialized_Alias(reg, sid, t) ==
    [k \in DOMAIN reg \cup {sid} |-> t]

\* Variant: the registry is replaced by one holding only the new session.
OnSessionInitialized_Replace(reg, sid, t) == [k \in {sid} |-> t]

\* onsessioninitialized: transports[sessionId] = transport.
OnSessionInitialized(reg, sid, t) ==
    [k \in DOMAIN reg \cup {sid} |-> IF k = sid THEN t ELSE reg[k]]

\* Variant: the close hook leaves the registry as it is.
OnClose_Keep(reg, tp) == reg

\* Variant: a close without a session id empties the registry.
OnClose_Reset(reg, tp) ==
    IF TruthySid(tp.sessionId)
    THEN [k \in DOMAIN reg \ {tp.sessionId} |-> reg[k]]
    ELSE EmptyRegistry

\* transport.onclose: if (transport.sessionId) delete transports[...].
OnClose(reg, tp) ==
    IF TruthySid(tp.sessionId)
    THEN [k \in DOMAIN reg \ {tp.sessionId} |-> reg[k]]
    ELSE reg

\* Variant: any POST without a session id starts a session.
RoutePost_AnyMethod(reg, sid, method) ==
    IF TruthySid(sid) /\ TruthyValue(Lookup(reg, sid)) THEN "reuse"
    ELSE IF ~TruthySid(sid) THEN "init"
    ELSE "invalid"

\* Variant: a handshake always starts a session, whatever the header.
RoutePost_InitFirst(reg, sid, method) ==
    IF method = "initialize" THEN "init"
    ELSE IF TruthySid(sid) /\ TruthyValue(Lookup(reg, sid)) THEN "reuse"
    ELSE "invalid"

\* The if / else-if / else chain of the POST handler.
RoutePost(reg, sid, method) ==
    IF TruthySid(sid) /\ TruthyValue(Lookup(reg, sid)) THEN "reuse"
    ELSE IF ~TruthySid(sid) /\ method = "initialize" THEN "init"
    ELSE "invalid"

\* The guard of the GET and DELETE handlers.
SessionMissing(reg, sid) == ~TruthySid(sid) \/ ~TruthyValue(Lookup(reg, sid))

(* --------------------------- authentication ---------------------------- *)

OauthEnabled == RequiredOAuthEnv \subseteq env

\* Variant: only POST is checked.
AuthMethods_PostOnly == {"POST"}

\* Verbs the middleware checks; any other verb goes straight to next().
AuthMethods == {"POST", "GET", "DELETE"}

\* authHeader && authHeader.startsWith('Bearer ')
HasBearer(h) == h # NoAuthHeader /\ h[1] = "Bearer "

\* app.use('/mcp', ...) is a prefix mount: it runs for /mcp and for every
\* path below it.
MountCovers(path) == path \in {McpPath, DiscoveryPath}

\* Whether the middleware guards this request at all.
Gated(req) == OauthEnabled /\ MountCovers(req.path) /\ req.verb \in AuthMethods

\* Variant: the `return` is missing and next() runs after the challenge.
CallsNextAfterChallenge_Always == TRUE

\* `return res.status(401)...`: the middleware stops after the challenge.
CallsNextAfterChallenge == FALSE

(* ------------------------------ responses ------------------------------ *)

NoResponse == 0

\* A response body that is not the discovery endpoint's JSON.
NoDoc == <<>>

Response(req, valid, status, code, www, fwd, created, delivered, tool) ==
    [verb |-> req.verb, sid |-> req.sid, method |-> req.method,
     ok |-> req.ok, auth |-> req.auth, path |-> req.path, valid |-> valid,
     status |-> status, code |-> code, www |-> www, fwd |-> fwd,
     created |-> created, delivered |-> delivered, tool |-> tool,
     doc |-> NoDoc]

NoRequest == [verb |-> "-", sid |-> Undefined, method |-> "-", ok |-> TRUE,
              auth |-> NoAuthHeader, path |-> "-"]

\* No exchange completed by the last step.
NoExchange == Response(NoRequest, "-", NoResponse, 0, FALSE, NoTransport,
                       NoTransport, FALSE, FALSE)

\* 401 with WWW-Authenticate and JSON-RPC error -32001.
Unauthorized(req, valid) ==
    Response(req, valid, 401, -32001, TRUE, NoTransport, NoTransport,
             FALSE, FALSE)

\* 400 with JSON-RPC error -32000 (POST) or a plain-text body (GET, DELETE).
BadRequest(req, valid) ==
    Response(req, valid, 400, IF req.verb = "POST" THEN -32000 ELSE 0, FALSE,
             NoTransport, NoTransport, FALSE, FALSE)

\* The catch block of the POST handler: 500 with JSON-RPC error -32603.
InternalError(req, valid) ==
    Response(req, valid, 500, -32603, FALSE, NoTransport, NoTransport,
             FALSE, FALSE)

\* GET and DELETE have no try/catch: a fault rejects the handler's promise,
\* which the framework either turns into its own 500 or leaves unanswered.
UncaughtStatuses == {NoResponse, 500}

(* ------------------- StreamableHTTPServerTransport --------------------- *)

\* new StreamableHTTPServerTransport({sessionIdGenerator, ...}): no session
\* id yet, not initialized.  `closed` records that close() has run.
NewTransport == [sessionId |-> Undefined, initialized |-> FALSE,
                 closed |-> FALSE]

\* The transport's session check for every request that is not a handshake:
\* 0 when the request may proceed, otherwise the HTTP status it answers.
ValidateSession(tp, sid) ==
    IF ~tp.initialized THEN 400
    ELSE IF sid = Undefined THEN 400
    ELSE IF sid # tp.sessionId THEN 404
    ELSE 0

core == <<tr, transports, serverTransport, issued, everRegistered>>

\* The response recorded for the exchange: a handler that runs after the
\* middleware already answered cannot replace the 401 that was sent.
Respond(req, valid, challenged, resp) ==
    last' = IF challenged THEN Unauthorized(req, valid) ELSE resp

\* transport.handleRequest(req, res, req.body) for a POST, on transport t,
\* starting from transport table trs and Server binding srv.
TransportPost(t, trs, srv, req, valid, challenged, created) ==
    IF ~req.ok
    THEN /\ tr' = trs
         /\ serverTransport' = srv
         /\ UNCHANGED <<transports, issued, everRegistered>>
         /\ Respond(req, valid, challenged,
                Response(req, valid, 406, -32000, FALSE, t, created,
                         FALSE, FALSE))
    ELSE IF req.method = "initialize"
    THEN IF trs[t].initialized /\ trs[t].sessionId # Undefined
         THEN \* second handshake on an initialized transport
              /\ tr' = trs
              /\ serverTransport' = srv
              /\ UNCHANGED <<transports, issued, everRegistered>>
              /\ Respond(req, valid, challenged,
                     Response(req, valid, 400, -32600, FALSE, t, created,
                              FALSE, FALSE))
         ELSE \* sessionIdGenerator(), then onsessioninitialized(sessionId)
              \E id \in UUIDs \ issued :
                /\ tr' = [trs EXCEPT ![t] = [sessionId |-> id,
                                             initialized |-> TRUE,
                                             closed |-> FALSE]]
                /\ issued' = issued \cup {id}
                /\ transports' = OnSessionInitialized(transports, id, t)
                /\ everRegistered' = everRegistered \cup DOMAIN transports'
                /\ serverTransport' = srv
                /\ Respond(req, valid, challenged,
                       Response(req, valid, 200, 0, FALSE, t, created,
                                srv = t, FALSE))
    ELSE LET v == ValidateSession(trs[t], req.sid) IN
         /\ tr' = trs
         /\ serverTransport' = srv
         /\ UNCHANGED <<transports, issued, everRegistered>>
         /\ Respond(req, valid, challenged,
                IF v # 0
                THEN Response(req, valid, v, IF v = 404 THEN -32001 ELSE -32000,
                              FALSE, t, created, FALSE, FALSE)
                ELSE \* the message reaches the Server, which answers through
                     \* the transport it is currently bound to
                     Response(req, valid, 200, 0, FALSE, t, created,
                              srv = t, req.method = "tools/call"))

\* transport.handleRequest(req, res) for a GET: opens the push channel.
TransportGet(t, req, valid, challenged) ==
    LET v == ValidateSession(tr[t], req.sid) IN
    /\ UNCHANGED core
    /\ Respond(req, valid, challenged,
           Response(req, valid, IF v # 0 THEN v ELSE 200,
                    IF v = 0 THEN 0 ELSE IF v = 404 THEN -32001 ELSE -32000,
                    FALSE, t, NoTransport, v = 0, FALSE))

\* transport.handleRequest(req, res) for a DELETE: close(), whose onclose
\* chain runs the registry clean-up and then the Server's own close hook,
\* which drops the Server's transport binding.
TransportDelete(t, req, valid, challenged) ==
    LET v == ValidateSession(tr[t], req.sid) IN
    IF v # 0
    THEN /\ UNCHANGED core
         /\ Respond(req, valid, challenged,
                Response(req, valid, v, IF v = 404 THEN -32001 ELSE -32000,
                         FALSE, t, NoTransport, FALSE, FALSE))
    ELSE /\ tr' = [tr EXCEPT ![t].closed = TRUE]
         /\ transports' = OnClose(transports, tr[t])
         /\ serverTransport' = NoTransport
         /\ UNCHANGED <<issued, everRegistered>>
         /\ Respond(req, valid, challenged,
                Response(req, valid, 200, 0, FALSE, t, NoTransport,
                         TRUE, FALSE))

(* ---------------------------- route handlers --------------------------- *)

\* app.post('/mcp', ...)
PostHandler(req, valid, challenged) ==
    LET branch == RoutePost(transports, req.sid, req.method) IN
    CASE branch = "reuse" ->
           LET t == Lookup(transports, req.sid) IN
           IF t = InheritedValue
           THEN \* transport.handleRequest is not a function: caught below
                /\ UNCHANGED core
                /\ Respond(req, valid, challenged, InternalError(req, valid))
           ELSE TransportPost(t, tr, serverTransport, req, valid, challenged,
                              NoTransport)
      [] branch = "init" ->
           \* new transport, onclose hook, await server.connect(transport)
           /\ Len(tr) < MaxTransports
           /\ LET t == Len(tr) + 1 IN
              TransportPost(t, Append(tr, NewTransport), t, req, valid,
                            challenged, t)
      [] branch = "invalid" ->
           /\ UNCHANGED core
           /\ Respond(req, valid, challenged, BadRequest(req, valid))

\* What a GET or DELETE handler does with a truthy registry read that is
\* not a transport: the call throws outside any try block.
Uncaught(req, valid, challenged) ==
    /\ UNCHANGED core
    /\ \E st \in UncaughtStatuses :
          Respond(req, valid, challenged,
              Response(req, valid, st, 0, FALSE, NoTransport, NoTransport,
                       FALSE, FALSE))

\* app.get('/mcp', ...)
GetHandler(req, valid, challenged) ==
    IF SessionMissing(transports, req.sid)
    THEN /\ UNCHANGED core
         /\ Respond(req, valid, challenged, BadRequest(req, valid))
    ELSE LET t == Lookup(transports, req.sid) IN
         IF t = InheritedValue
         THEN Uncaught(req, valid, challenged)
         ELSE TransportGet(t, req, valid, challenged)

\* app.delete('/mcp', ...)
DeleteHandler(req, valid, challenged) ==
    IF SessionMissing(transports, req.sid)
    THEN /\ UNCHANGED core
         /\ Respond(req, valid, challenged, BadRequest(req, valid))
    ELSE LET t == Lookup(transports, req.sid) IN
         IF t = InheritedValue
         THEN Uncaught(req, valid, challenged)
         ELSE TransportDelete(t, req, valid, challenged)

\* The JSON the discovery endpoint builds from process.env.
Metadata ==
    [resource |-> processEnv["OAUTH_MCP_RESOURCE"],
     authorization_servers |-> <<processEnv["OAUTH_AUTH_URL"]>>,
     issuer |-> processEnv["OAUTH_BASE_URL"],
     jwks_uri |-> processEnv["OAUTH_JWKS_URL"],
     token_endpoint |-> processEnv["OAUTH_TOKEN_URL"],
     response_types_supported |-> <<"code", "token">>,
     grant_types_supported |-> <<"authorization_code", "client_credentials">>]

MetadataNotAvailable ==
    [error |-> "OAuth metadata not available: server is running unauthenticated."]

\* app.get('/mcp/.well-known/oauth-protected-resource', ...)
DiscoveryHandler(req, valid, challenged) ==
    /\ UNCHANGED core
    /\ Respond(req, valid, challenged,
           IF ~OauthEnabled
           THEN [Response(req, valid, 404, 0, FALSE, NoTransport, NoTransport,
                          FALSE, FALSE) EXCEPT !.doc = MetadataNotAvailable]
           ELSE [Response(req, valid, 200, 0, FALSE, NoTransport, NoTransport,
                          FALSE, FALSE) EXCEPT !.doc = Metadata])

HandlerFor(req, valid, challenged) ==
    CASE req.path = DiscoveryPath -> DiscoveryHandler(req, valid, challenged)
      [] req.path = McpPath /\ req.verb = "POST" ->
           PostHandler(req, valid, challenged)
      [] req.path = McpPath /\ req.verb = "GET" ->
           GetHandler(req, valid, challenged)
      [] req.path = McpPath /\ req.verb = "DELETE" ->
           DeleteHandler(req, valid, challenged)

(* --------------------------- OAuth middleware -------------------------- *)

\* The 401 challenge; the route handler runs afterwards only if the
\* middleware went on to next().
Deliver401(req, valid) ==
    IF CallsNextAfterChallenge
    THEN HandlerFor(req, valid, TRUE)
    ELSE /\ last' = Unauthorized(req, valid)
         /\ UNCHANGED core

\* Authorization header absent or not a Bearer credential.
Challenge(req) ==
    /\ Gated(req)
    /\ ~HasBearer(req.auth)
    /\ Deliver401(req, "-")
    /\ UNCHANGED <<apart, pending, validatorCalled>>

\* A Bearer credential: validateAccessToken is called and awaited.
ValidateStart(req) ==
    /\ Gated(req)
    /\ HasBearer(req.auth)
    /\ pending < MaxPending
    /\ pending' = pending + 1
    /\ validatorCalled' = TRUE
    /\ last' = NoExchange
    /\ UNCHANGED <<apart, tr, transports, serverTransport, issued,
                   everRegistered>>

\* The validator reported the token invalid (or threw).
ValidateReject(req) ==
    /\ Gated(req)
    /\ HasBearer(req.auth)
    /\ pending > 0
    /\ pending' = pending - 1
    /\ Deliver401(req, "invalid")
    /\ UNCHANGED <<apart, validatorCalled>>

\* next(): the request reaches its route handler, either because no
\* middleware guards it or because the validator accepted its token.
Admitted(req, valid) ==
    \/ /\ ~Gated(req)
       /\ valid = "-"
       /\ pending' = pending
    \/ /\ Gated(req)
       /\ HasBearer(req.auth)
       /\ valid = "valid"
       /\ pending > 0
       /\ pending' = pending - 1

PostMcp(req) ==
    /\ req \in PostRequests
    /\ \E valid \in {"-", "valid"} :
          Admitted(req, valid) /\ PostHandler(req, valid, FALSE)
    /\ UNCHANGED <<apart, validatorCalled>>

GetMcp(req) ==
    /\ req \in GetRequests
    /\ \E valid \in {"-", "valid"} :
          Admitted(req, valid) /\ GetHandler(req, valid, FALSE)
    /\ UNCHANGED <<apart, validatorCalled>>

DeleteMcp(req) ==
    /\ req \in DeleteRequests
    /\ \E valid \in {"-", "valid"} :
          Admitted(req, valid) /\ DeleteHandler(req, valid, FALSE)
    /\ UNCHANGED <<apart, validatorCalled>>

\* The exchange just completed opened a session's push channel: the GET
\* was accepted and its response is held open as the session's stream.
PushChannelOpened(r) ==
    r.verb = "GET" /\ r.path = McpPath /\ r.status = 200 /\ r.delivered

\* The 'close' event of that response, as recorded in `last`.
StreamClosed(r) ==
    [verb |-> "CLOSE", sid |-> r.sid, method |-> "-", ok |-> TRUE,
     auth |-> r.auth, path |-> McpPath]

\* The client that has just opened the push channel goes away without
\* sending DELETE.  The transport's handler for the response's 'close'
\* event forgets the stream; it does not call close(), so the onclose hook
\* installed by the POST handler does not run.
ClientDisconnect ==
    /\ PushChannelOpened(last)
    /\ last' = Response(StreamClosed(last), last.valid, NoResponse, 0, FALSE,
                        last.fwd, NoTransport, FALSE, FALSE)
    /\ UNCHANGED <<apart, core, pending, validatorCalled>>

\* The close signal of transport t, as recorded in `last`: `sid` is the
\* transport's session id and `delivered` whether the registry held it.
CloseSignalOf(t) ==
    Response([verb |-> "ONCLOSE", sid |-> tr[t].sessionId, method |-> "-",
              ok |-> TRUE, auth |-> NoAuthHeader, path |-> McpPath],
             "-", NoResponse, 0, FALSE, t, NoTransport,
             tr[t].sessionId \in DOMAIN transports, FALSE)

\* transport.onclose fires for transport t, whatever its state: the hook
\* installed by the POST handler, then the Server's own close hook.  The
\* signal may come for a transport that was closed before or that never
\* completed its handshake.
CloseSignal(t) ==
    /\ t \in 1..Len(tr)
    /\ tr' = [tr EXCEPT ![t].closed = TRUE]
    /\ transports' = OnClose(transports, tr[t])
    /\ serverTransport' = NoTransport
    /\ last' = CloseSignalOf(t)
    /\ UNCHANGED <<apart, issued, everRegistered, pending, validatorCalled>>

GetDiscovery(req) ==
    /\ req \in DiscoveryRequests
    /\ \E valid \in {"-", "valid"} :
          Admitted(req, valid) /\ DiscoveryHandler(req, valid, FALSE)
    /\ UNCHANGED <<apart, validatorCalled>>

(* --------------------------- token validator --------------------------- *)

\* OAUTH_TOKEN_CACHE_DURATION_MS, counted in ticks of the clock.
CacheTTL == 2

\* The `flow` argument: the two supported values and another string.
Flows == {"jwt", "opaque", "saml"}

\* Key ids: one the key set holds, one it does not.
KeySetKids == {"k1"}
Kids == {"k1", "k9"}

NoExp == -1
ExpectedAud == "value-of-OAUTH_MCP_RESOURCE"

\* A token is its string (`raw`) and, when jwt.decode can decode it
\* (`form` "jws"), the key id of its header, whether its signature verifies
\* under the key of that id, its exp claim (absent, or a time of the clock)
\* and its aud claim.
GoodToken == [raw |-> "jws", form |-> "jws", kid |-> "k1", sig |-> "good",
              exp |-> MaxClock + 1, aud |-> ExpectedAud]

\* The good token and the tokens that differ from it in one respect: an
\* unknown key id, a signature that does not verify, an exp the clock
\* reaches, another audience.
JwtTokens == {GoodToken,
              [GoodToken EXCEPT !.kid = "k9"],
              [GoodToken EXCEPT !.sig = "bad"],
              [GoodToken EXCEPT !.exp = 1],
              [GoodToken EXCEPT !.aud = "other-audience"]}

\* Further shapes of the claims: no exp claim, an aud claim that is an array
\* holding the expected audience (written as its JSON text), no aud claim.
AudArray == "[\"value-of-OAUTH_MCP_RESOURCE\"]"
SignedTokens == JwtTokens \cup {[GoodToken EXCEPT !.exp = NoExp],
                                [GoodToken EXCEPT !.aud = AudArray],
                                [GoodToken EXCEPT !.aud = Undefined]}

\* A string jwt.decode answers null for.
NotJws(raw) == [raw |-> raw, form |-> "other", kid |-> Undefined,
                sig |-> "bad", exp |-> NoExp, aud |-> Undefined]
Garbage == NotJws("not-a-jwt")

OpaqueRaws == {"opq-1"}
OpaqueTokens == {NotJws(raw) : raw \in OpaqueRaws}

Tokens == JwtTokens \cup {Garbage} \cup OpaqueTokens

JwksUri == "value-of-OAUTH_JWKS_URL"
DefaultUserApi == "https://api.github.com/user"

\* The `options` argument: complete, without jwksUri, without
\* expectedAudience.  opaqueUserApi is left to its default.
FullOptions == [jwksUri |-> JwksUri, expectedAudience |-> ExpectedAud,
                opaqueUserApi |-> Undefined]
OptionChoices == {FullOptions,
                  [FullOptions EXCEPT !.jwksUri = Undefined],
                  [FullOptions EXCEPT !.expectedAudience = Undefined]}

\* What the validator resolves to, and a rejection of its promise.
NoPayload == <<>>
Valid(payload) == [valid |-> TRUE, reason |-> "", payload |-> payload,
                   threw |-> FALSE]
Invalid(reason) == [valid |-> FALSE, reason |-> reason, payload |-> NoPayload,
                    threw |-> FALSE]
Thrown(message) == [valid |-> FALSE, reason |-> message,
                    payload |-> NoPayload, threw |-> TRUE]

\* Variant: the error leaves the function.
Caught_Rethrow(outcome) == outcome

\* try { ... } catch (err) { return { valid: false, reason: err.message } }
Caught(outcome) ==
    IF outcome.threw THEN Invalid(outcome.reason) ELSE outcome

\* Bodies a GET of the key-set URI can deliver: the key set, the key set
\* after a key has been added to it, or a body without a `keys` member.
KeySetBody == [keys |-> KeySetKids]
RotatedBody == [keys |-> Kids]
MalformedBody == [html |-> "<html>"]
JwksBodies == {KeySetBody, RotatedBody, MalformedBody}

\* jwksData.keys || []
KeysOf(body) == IF "keys" \in DOMAIN body THEN body.keys ELSE {}

\* What axios.get resolves to or throws for the key-set URI.
JwksOutcomes == [ok : {TRUE}, body : JwksBodies, message : {""}]
                  \cup [ok : {FALSE}, body : {MalformedBody},
                        message : {"Request failed with status code 500",
                                   "connect ECONNREFUSED"}]

\* Statuses the introspection endpoint answers, and 0 for no answer at all.
OpaqueStatuses == {200, 204, 401, 0}

\* Bodies the introspection endpoint can send with its answer: the user
\* record of the token, or nothing at all (resp.data is then '').
UserBody(token) == "user-of-" \o token.raw
EmptyBody == ""
OpaqueBodies(token) == {UserBody(token), EmptyBody}

\* if (!userData): the value read from the cache, or just received, counts
\* only when it is truthy.
TruthyData(data) == data # EmptyBody

\* axios resolves for 2xx and throws for everything else.
AxiosResolves(status) == status \in 200..299

\* Cache keys.
JwksKey(uri) == "jwks:" \o uri
OpaqueKey(api, token) == "opaque:" \o api \o ":" \o token.raw

EmptyCache == [k \in {} |-> 0]

\* getCachedData: the data of an entry that has not expired, else null; an
\* expired entry is deleted on the way.
NoData == 0

\* Variant: the cache is never consulted.
CacheHit_Never(c, key, now) == FALSE

\* Variant: an entry is still usable at the instant of its expiry.
CacheHit_Inclusive(c, key, now) == key \in DOMAIN c /\ now <= c[key].expiry

CacheHit(c, key, now) == key \in DOMAIN c /\ now < c[key].expiry
GetCachedData(c, key, now) ==
    IF CacheHit(c, key, now) THEN c[key].data ELSE NoData

\* let userData = getCachedData(cacheKey); if (!userData) ...: the lookup
\* spares the remote call only when it returned a truthy value.
UsableEntry(c, key, now) == CacheHit(c, key, now) /\ TruthyData(c[key].data)
AfterGet(c, key, now) ==
    IF key \in DOMAIN c /\ ~(now < c[key].expiry)
    THEN [k \in DOMAIN c \ {key} |-> c[k]]
    ELSE c

\* setCachedData: the entry expires CacheTTL after the moment it is stored.
SetCachedData(c, key, data, now) ==
    [k \in DOMAIN c \cup {key} |->
        IF k = key THEN [data |-> data, expiry |-> now + CacheTTL] ELSE c[k]]

\* Variant: a token without exp claim is refused.
JwtVerify_ExpRequired(token, opts, body, now) ==
    IF token.kid \notin KeysOf(body)
    THEN Invalid("No matching JWK found for kid")
    ELSE IF token.sig # "good" THEN Thrown("invalid signature")
    ELSE IF token.exp = NoExp \/ now >= token.exp THEN Thrown("jwt expired")
    ELSE IF opts.expectedAudience # Undefined
            /\ token.aud # opts.expectedAudience
    THEN Invalid("Token audience mismatch")
    ELSE Valid(token)

\* Variant: the aud claim is not compared.
JwtVerify_NoAudience(token, opts, body, now) ==
    IF token.kid \notin KeysOf(body)
    THEN Invalid("No matching JWK found for kid")
    ELSE IF token.sig # "good" THEN Thrown("invalid signature")
    ELSE IF token.exp # NoExp /\ now >= token.exp THEN Thrown("jwt expired")
    ELSE IF token.exp # NoExp /\ now > token.exp
    THEN Invalid("Token expired")
    ELSE Valid(token)

\* The signed-token flow from the key lookup on: keys.find by kid, jwkToPem,
\* jwt.verify (which throws on a bad signature and on exp reached), then the
\* function's own exp and aud checks.
JwtVerify(token, opts, body, now) ==
    IF token.kid \notin KeysOf(body)
    THEN Invalid("No matching JWK found for kid")
    ELSE IF token.sig # "good" THEN Thrown("invalid signature")
    ELSE IF token.exp # NoExp /\ now >= token.exp THEN Thrown("jwt expired")
    ELSE IF token.exp # NoExp /\ now > token.exp
    THEN Invalid("Token expired")
    ELSE IF opts.expectedAudience # Undefined
            /\ token.aud # opts.expectedAudience
    THEN Invalid("Token audience mismatch")
    ELSE Valid(token)

\* Variant: every answer that axios resolves counts as success.
OpaqueAccepts_AnyResolved(status) == AxiosResolves(status)

\* if (resp.status === 200)
OpaqueAccepts(status) == status = 200

\* The opaque flow once the introspection call has come back with `body`.
OpaqueOutcome(token, status, body) ==
    IF ~AxiosResolves(status)
    THEN Thrown(IF status = 0 THEN "connect ECONNREFUSED"
                ELSE "Request failed with status code " \o ToString(status))
    ELSE IF OpaqueAccepts(status) THEN Valid(body)
    ELSE Invalid("Opaque token validation failed: " \o ToString(status))

\* What a finished call leaves in vres.
NoResult == [flow |-> "-", token |-> Garbage, opts |-> FullOptions, at |-> 0,
             keys |-> {}, status |-> -1, bearer |-> Undefined,
             body |-> Undefined, res |-> Invalid("-")]
Result(flow, token, opts, keys, status, bearer, res) ==
    [flow |-> flow, token |-> token, opts |-> opts, at |-> clock,
     keys |-> keys, status |-> status, bearer |-> bearer,
     body |-> Undefined, res |-> res]

\* The state of the HTTP layer, which the validator never writes.
http == <<config, tr, transports, serverTransport, issued, everRegistered,
          pending, validatorCalled, last>>

\* State the dispatcher never writes, state the validator never writes, and
\* state the constructor never writes.
notDispatcher == <<http, validator, construction, extension>>
notValidator == <<http, dispatcher, construction, extension>>
notConstruction == <<http, validator, dispatcher, extension>>
notExtension == <<http, validator, dispatcher, construction>>

\* Calls suspended on a network request.
Waiting == Cardinality({i \in 1..Len(fetchLog) : fetchLog[i].status = "pending"})
             + opaqueWait["opq-1"]

\* validateAccessToken(token, flow, options), from the call to its first
\* await or, when nothing has to be fetched, to its return.
ValidateAccessToken(token, flow, opts) ==
    /\ UNCHANGED <<notValidator, clock>>
    /\ IF flow = "jwt"
       THEN IF token.form # "jws"
            THEN /\ vres' = Result(flow, token, opts, {}, -1, Undefined,
                                   Caught(Invalid("Invalid token")))
                 /\ UNCHANGED <<cache, fetchLog, opaqueWait>>
            ELSE IF opts.jwksUri = Undefined
            THEN /\ vres' = Result(flow, token, opts, {}, -1, Undefined,
                                   Caught(Invalid("Missing JWKS URI")))
                 /\ UNCHANGED <<cache, fetchLog, opaqueWait>>
            ELSE LET key == JwksKey(opts.jwksUri)
                     data == GetCachedData(cache, key, clock) IN
                 /\ cache' = AfterGet(cache, key, clock)
                 /\ UNCHANGED opaqueWait
                 /\ IF CacheHit(cache, key, clock)
                    THEN /\ vres' = Result(flow, token, opts, KeysOf(data),
                                       -1, Undefined,
                                       Caught(JwtVerify(token, opts, data,
                                                        clock)))
                         /\ UNCHANGED fetchLog
                    ELSE \* await axios.get(jwksUri)
                         /\ Len(fetchLog) < MaxFetches
                         /\ Waiting < MaxWaiting
                         /\ fetchLog' = Append(fetchLog,
                               [start |-> clock, status |-> "pending"])
                         /\ vres' = NoResult
       ELSE IF flow = "opaque"
       THEN LET api == IF opts.opaqueUserApi # Undefined
                       THEN opts.opaqueUserApi ELSE DefaultUserApi
                key == OpaqueKey(api, token)
                data == GetCachedData(cache, key, clock) IN
            /\ token \in OpaqueTokens
            /\ cache' = AfterGet(cache, key, clock)
            /\ UNCHANGED fetchLog
            /\ IF UsableEntry(cache, key, clock)
               THEN /\ vres' = Result(flow, token, opts, {}, -1, Undefined,
                                      Caught(Valid(data)))
                    /\ UNCHANGED opaqueWait
               ELSE \* await axios.get(apiUrl, { Authorization: Bearer })
                    /\ Waiting < MaxWaiting
                    /\ opaqueWait' = [opaqueWait EXCEPT ![token.raw] = @ + 1]
                    /\ vres' = NoResult
       ELSE /\ vres' = Result(flow, token, opts, {}, -1, Undefined,
                              Invalid("Unsupported flow"))
            /\ UNCHANGED <<cache, fetchLog, opaqueWait>>

\* The awaited GET of the key set comes back for fetch i; the call that
\* waited for it stores the body and finishes.
JwksReturn(i, outcome, token, opts) ==
    /\ i \in 1..Len(fetchLog)
    /\ fetchLog[i].status = "pending"
    /\ opts.jwksUri # Undefined
    /\ UNCHANGED <<notValidator, clock, opaqueWait>>
    /\ fetchLog' = [fetchLog EXCEPT
                      ![i].status = IF outcome.ok THEN "ok" ELSE "failed"]
    /\ IF outcome.ok
       THEN /\ cache' = SetCachedData(cache, JwksKey(opts.jwksUri),
                                      outcome.body, clock)
            /\ vres' = Result("jwt", token, opts, KeysOf(outcome.body), 200,
                              Undefined,
                              Caught(JwtVerify(token, opts, outcome.body,
                                               clock)))
       ELSE /\ UNCHANGED cache
            /\ vres' = Result("jwt", token, opts, {}, 0, Undefined,
                              Caught(Thrown(outcome.message)))

\* The awaited introspection call for `token` comes back with `status` and
\* `body`.
OpaqueReturn(token, status, body, opts) ==
    /\ opaqueWait[token.raw] > 0
    /\ UNCHANGED <<notValidator, clock, fetchLog>>
    /\ opaqueWait' = [opaqueWait EXCEPT ![token.raw] = @ - 1]
    /\ LET api == IF opts.opaqueUserApi # Undefined
                  THEN opts.opaqueUserApi ELSE DefaultUserApi
           out == OpaqueOutcome(token, status, body) IN
       /\ cache' = IF out.valid /\ ~out.threw
                   THEN SetCachedData(cache, OpaqueKey(api, token),
                                      out.payload, clock)
                   ELSE cache
       /\ vres' = [Result("opaque", token, opts, {}, status, token.raw,
                          Caught(out)) EXCEPT !.body = body]

\* Time passes.
Tick ==
    /\ clock < MaxClock
    /\ clock' = clock + 1
    /\ vres' = NoResult
    /\ UNCHANGED <<notValidator, cache, fetchLog, opaqueWait>>

(* --------------------------- tool dispatcher --------------------------- *)

\* The catalog: schemaTools, entityTools and queryTools, in that order.
SchemaTools == <<"get_entity_schema", "get_attribute_schema", "list_entities">>
EntityTools == <<"query_entities", "get_entity", "create_entity",
                 "update_entity", "delete_entity">>
QueryTools == <<"execute_odata_query", "execute_function">>
AllTools == SchemaTools \o EntityTools \o QueryTools

\* tools.some(tool => tool.name === name)
HasTool(tools, name) == \E i \in 1..Len(tools) : tools[i] = name

\* Names a tools/call can carry: the catalog's and two others.
ToolNames == {AllTools[i] : i \in 1..Len(AllTools)}
               \cup {"drop_database", "constructor"}

\* request.params.arguments: an object, or absent.
SomeArgs == "{...}"
ArgChoices == {SomeArgs, Undefined}

\* The method of the API client each tool calls.
ApiMethod(name) ==
    CASE name = "get_entity_schema" -> "getEntityMetadata"
      [] name = "get_attribute_schema" -> "getAttributeMetadata"
      [] name = "list_entities" -> "getEntitySets"
      [] name = "query_entities" -> "queryEntities"
      [] name = "get_entity" -> "getEntity"
      [] name = "create_entity" -> "createEntity"
      [] name = "update_entity" -> "updateEntity"
      [] name = "delete_entity" -> "deleteEntity"
      [] name = "execute_odata_query" -> "executeCustomQuery"
      [] name = "execute_function" -> "executeCustomQuery"

\* The text each tool puts before the client's error message.
ErrorPrefix(name) ==
    CASE name = "get_entity_schema" -> "Error getting entity schema: "
      [] name = "get_attribute_schema" -> "Error getting attribute schema: "
      [] name = "list_entities" -> "Error listing entities: "
      [] name = "query_entities" -> "Error querying entities: "
      [] name = "get_entity" -> "Error getting entity: "
      [] name = "create_entity" -> "Error creating entity: "
      [] name = "update_entity" -> "Error updating entity: "
      [] name = "delete_entity" -> "Error deleting entity: "
      [] name = "execute_odata_query" -> "Error executing OData query: "
      [] name = "execute_function" -> "Error executing function: "

\* Every handler but list_entities starts by destructuring `args`.
DestructuresArgs(name) == name # "list_entities"

\* What the API client resolves to: {success: true, data} or
\* {success: false, error, statusCode}.
ApiOutcomes ==
    [success : {TRUE}, data : {"record-1", "record-2"}, error : {Undefined},
     statusCode : {200}]
      \cup [success : {FALSE}, data : {Undefined},
            error : {"Not Found", "Network Error"}, statusCode : {404, 500}]

\* JSON.stringify(data, null, 2) of a string.
Stringify(data) == "\"" \o data \o "\""

\* The text of a tool's result when the client reported success.
SuccessText(name, outcome) ==
    IF name = "delete_entity" THEN "Entity deleted successfully"
    ELSE Stringify(outcome.data)

\* What the tools/call handler produces: a CallToolResult, or an Error that
\* rejects the handler's promise.  `called` is the API client method that was
\* invoked on the way.
ToolResult(isError, text, called) ==
    [threw |-> FALSE, isError |-> isError, text |-> text, called |-> called]
ToolThrow(message, called) ==
    [threw |-> TRUE, isError |-> FALSE, text |-> message, called |-> called]
NoApiCall == "-"

\* One of the ten tool handlers: destructure the arguments, call the client,
\* wrap its answer.  The results carry no isError member.
ToolHandler(name, args, outcome) ==
    IF DestructuresArgs(name) /\ args = Undefined
    THEN ToolThrow("Cannot destructure property of 'args' as it is undefined.",
                   NoApiCall)
    ELSE IF ~outcome.success
    THEN ToolResult(FALSE, ErrorPrefix(name) \o outcome.error, ApiMethod(name))
    ELSE ToolResult(FALSE, SuccessText(name, outcome), ApiMethod(name))

\* handleToolCall: the three catalog groups in turn, then the throw.
HandleToolCall(name, args, outcome) ==
    IF HasTool(SchemaTools, name) THEN ToolHandler(name, args, outcome)
    ELSE IF HasTool(EntityTools, name) THEN ToolHandler(name, args, outcome)
    ELSE IF HasTool(QueryTools, name) THEN ToolHandler(name, args, outcome)
    ELSE ToolThrow("Unknown tool: " \o name, NoApiCall)

\* What the protocol Server sends for a request: the handler's result, or,
\* when the handler's promise is rejected, a JSON-RPC error with code -32603
\* and the Error's message.
NoTools == <<>>
RpcReply(name, args, outcome, out, tools) ==
    [name |-> name, args |-> args, outcome |-> outcome,
     rpc |-> IF out.threw THEN "error" ELSE "result",
     code |-> IF out.threw THEN -32603 ELSE 0,
     isError |-> out.isError, text |-> out.text, called |-> out.called,
     tools |-> tools]

NoOutcome == [success |-> TRUE, data |-> "-", error |-> Undefined,
              statusCode |-> 0]
NoReply == RpcReply("-", Undefined, NoOutcome, ToolResult(FALSE, "-", NoApiCall),
                    NoTools)

\* The CallToolRequestSchema handler: `return await handleToolCall(...)`,
\* with no try/catch around it.
CallTool(name, args, outcome) ==
    LET out == HandleToolCall(name, args, outcome) IN
    /\ apiCalls < MaxApiCalls
    /\ apiCalls' = IF out.called # NoApiCall THEN apiCalls + 1 ELSE apiCalls
    /\ dres' = RpcReply(name, args, outcome, out, NoTools)
    /\ UNCHANGED notDispatcher

\* The ListToolsRequestSchema handler: { tools: allTools }.
ListTools ==
    /\ dres' = RpcReply("tools/list", Undefined, NoOutcome,
                        ToolResult(FALSE, "-", NoApiCall), AllTools)
    /\ UNCHANGED <<apiCalls, notDispatcher>>

(* ----------------------------- construction ---------------------------- *)

\* validateConfig's `required` array, in its order.
RequiredD365 == <<"D365_BASE_URL", "D365_CLIENT_ID", "D365_CLIENT_SECRET",
                  "D365_TENANT_ID", "D365_RESOURCE">>
D365Keys == {RequiredD365[i] : i \in 1..Len(RequiredD365)}

\* Every way the five settings can be unset, empty or set.
AllD365Settings == {pe \in [D365Keys -> {Undefined, ""} \cup
                              {ValueOf(k) : k \in D365Keys}] :
                      \A k \in D365Keys : pe[k] \in EnvValuesOf(k)}

\* Variant: only an unset setting counts as missing.
IsMissing_UnsetOnly(v) == v = Undefined

\* !process.env[key]
IsMissing(v) == v = Undefined \/ v = ""

\* missing.join(", ")
RECURSIVE Join(_)
Join(keys) ==
    IF keys = <<>> THEN ""
    ELSE IF Len(keys) = 1 THEN keys[1]
    ELSE keys[1] \o ", " \o Join(Tail(keys))

MissingPrefix == "Missing required environment variables: "

\* validateConfig: required.filter(key => !process.env[key]), and the throw
\* when the filter keeps anything.
ValidateConfig(pe) ==
    LET Absent(k) == IsMissing(pe[k])
        missing == SelectSeq(RequiredD365, Absent) IN
    IF Len(missing) > 0
    THEN [threw |-> TRUE, message |-> MissingPrefix \o Join(missing)]
    ELSE [threw |-> FALSE, message |-> ""]

\* The config object handed to D365ApiClient.
D365Config(pe) == [baseUrl |-> pe["D365_BASE_URL"],
                   clientId |-> pe["D365_CLIENT_ID"],
                   clientSecret |-> pe["D365_CLIENT_SECRET"],
                   tenantId |-> pe["D365_TENANT_ID"],
                   resource |-> pe["D365_RESOURCE"]]
NoClient == [baseUrl |-> Undefined, clientId |-> Undefined,
             clientSecret |-> Undefined, tenantId |-> Undefined,
             resource |-> Undefined]

ServerName == "dynamics365-crm-server"

\* The request handlers setupToolHandlers registers.
ToolHandlers == {"tools/list", "tools/call"}

\* No constructor call has been made.
NotBuilt == [called |-> FALSE, env |-> [k \in D365Keys |-> Undefined],
             threw |-> FALSE, message |-> "", apiClient |-> NoClient,
             server |-> Undefined, handlers |-> {}]

\* new D365MCPServer() under process.env = pe: validateConfig, then the API
\* client, the protocol Server and the two request handlers.
NewD365MCPServer(pe) ==
    LET v == ValidateConfig(pe) IN
    /\ built' = IF v.threw
                THEN [NotBuilt EXCEPT !.called = TRUE, !.env = pe,
                                      !.threw = TRUE, !.message = v.message]
                ELSE [called |-> TRUE, env |-> pe, threw |-> FALSE,
                      message |-> "", apiClient |-> D365Config(pe),
                      server |-> ServerName, handlers |-> ToolHandlers]
    /\ UNCHANGED notConstruction

(* ------------------- VS Code extension: server provider ---------------- *)

\* httpServer === null.
NoProcess == 0

\* What the last step did: the operation, the process it concerned, and the
\* number of processes it spawned.
Op(op, proc, spawned) == [op |-> op, proc |-> proc, spawned |-> spawned]
NoOp == Op("-", NoProcess, 0)

\* spawnServerProcess, r times: the processes are appended in spawn order.
RECURSIVE Spawn(_, _)
Spawn(ps, r) == IF r = 0 THEN ps ELSE Spawn(Append(ps, "running"), r - 1)

\* The entries of a sequence at the indices in `keep`, in order.
RECURSIVE Keep(_, _, _)
Keep(seq, keep, i) ==
    IF i > Len(seq) THEN <<>>
    ELSE (IF i \in keep THEN <<seq[i]>> ELSE <<>>) \o Keep(seq, keep, i + 1)

\* startHttpServer(): nothing when a server is tracked; otherwise spawn, keep
\* the reference and install the process handlers.
StartHttpServer ==
    /\ IF httpServer # NoProcess
       THEN /\ UNCHANGED <<httpServer, procs>>
            /\ xop' = Op("start", httpServer, 0)
       ELSE /\ Len(procs) < MaxProcs
            /\ procs' = Spawn(procs, 1)
            /\ httpServer' = Len(procs) + 1
            /\ xop' = Op("start", Len(procs) + 1, 1)
    /\ UNCHANGED <<stops, notExtension>>

\* A stopHttpServer call that found a server: SIGTERM to its process, then
\* the wait for the process's 'exit' event or the 5 s timer.  `restart`
\* tells whether restartHttpServer made the call and goes on to start.
BeginStop(restart) ==
    /\ Len(stops) < MaxStops
    /\ stops' = Append(stops, [proc |-> httpServer, restart |-> restart])
    /\ UNCHANGED <<httpServer, procs>>

\* stopHttpServer(), up to its await.
StopHttpServer ==
    /\ IF httpServer = NoProcess
       THEN UNCHANGED <<httpServer, procs, stops>>
       ELSE BeginStop(FALSE)
    /\ xop' = Op("stop", httpServer, 0)
    /\ UNCHANGED notExtension

\* restartHttpServer(), up to its first await: stop when a server is
\* tracked, otherwise start at once.
RestartHttpServer ==
    /\ IF httpServer # NoProcess
       THEN /\ BeginStop(TRUE)
            /\ xop' = Op("restart", httpServer, 0)
       ELSE /\ Len(procs) < MaxProcs
            /\ procs' = Spawn(procs, 1)
            /\ httpServer' = Len(procs) + 1
            /\ xop' = Op("restart", Len(procs) + 1, 1)
            /\ UNCHANGED stops
    /\ UNCHANGED notExtension

\* Process p exits, signalled or not.  Its 'exit' listeners run in the order
\* they were added: the one installed by setupProcessHandlers clears
\* httpServer whichever process it is attached to; then each waiting
\* stopHttpServer call is resolved.  Their continuations follow as
\* microtasks: each clears httpServer again, and each restart then calls
\* startHttpServer, which spawns before any of them has stored its process.
ProcessExit(p) ==
    /\ p \in 1..Len(procs)
    /\ procs[p] = "running"
    /\ LET waiting == {i \in 1..Len(stops) : stops[i].proc = p}
           r == Cardinality({i \in waiting : stops[i].restart}) IN
       /\ Len(procs) + r <= MaxProcs
       /\ procs' = Spawn([procs EXCEPT ![p] = "exited"], r)
       /\ httpServer' = IF r = 0 THEN NoProcess ELSE Len(procs) + r
       /\ stops' = Keep(stops, (1..Len(stops)) \ waiting, 1)
       /\ xop' = Op("exit", p, r)
    /\ UNCHANGED notExtension

\* The 5 s timer of waiting call i fires before its process has exited:
\* SIGKILL to whatever process httpServer refers to now, then the call goes
\* on as if the process had exited.
StopTimeout(i) ==
    /\ i \in 1..Len(stops)
    /\ LET r == IF stops[i].restart THEN 1 ELSE 0 IN
       /\ Len(procs) + r <= MaxProcs
       /\ procs' = Spawn(procs, r)
       /\ httpServer' = IF r = 0 THEN NoProcess ELSE Len(procs) + 1
       /\ stops' = Keep(stops, (1..Len(stops)) \ {i}, 1)
       /\ xop' = Op("timeout", stops[i].proc, r)
    /\ UNCHANGED notExtension

(* ---------------------------- specification ---------------------------- *)

\* The state once startHttpTransport has returned, for start-up settings
\* drawn from `settings`.
Start(settings) ==
    /\ processEnv \in settings
    /\ env = TruthyKeys(processEnv)
    /\ log = StartupLog(OauthEnabled)
    /\ tr = <<>>
    /\ transports = EmptyRegistry
    /\ serverTransport = NoTransport
    /\ issued = {}
    /\ everRegistered = {}
    /\ pending = 0
    /\ validatorCalled = FALSE
    /\ last = NoExchange
    /\ cache = EmptyCache
    /\ clock = 0
    /\ fetchLog = <<>>
    /\ opaqueWait = [raw \in OpaqueRaws |-> 0]
    /\ vres = NoResult
    /\ apiCalls = 0
    /\ dres = NoReply
    /\ built = NotBuilt
    /\ httpServer = NoProcess
    /\ procs = <<>>
    /\ stops = <<>>
    /\ xop = NoOp

Init == Start({Settings(c) : c \in EnvChoices})

Next ==
    \/ \E req \in Requests : Challenge(req)
    \/ \E req \in Requests : ValidateStart(req)
    \/ \E req \in Requests : ValidateReject(req)
    \/ \E req \in Requests : PostMcp(req)
    \/ \E req \in Requests : GetMcp(req)
    \/ \E req \in Requests : DeleteMcp(req)
    \/ \E req \in Requests : GetDiscovery(req)
    \/ ClientDisconnect

Spec == Init /\ [][Next]_vars

\* Requests that neither carry a session id nor start a session.
ProbeRequests == {r \in Requests : r.sid = Undefined /\ r.method # "initialize"}

\* Start-up under every combination of the five settings, followed by
\* requests that leave the registry empty.
InitEnv == Start(AllSettings)

NextEnv ==
    \/ \E req \in ProbeRequests : Challenge(req)
    \/ \E req \in ProbeRequests : ValidateStart(req)
    \/ \E req \in ProbeRequests : ValidateReject(req)
    \/ \E req \in ProbeRequests : PostMcp(req)
    \/ \E req \in ProbeRequests : GetMcp(req)
    \/ \E req \in ProbeRequests : DeleteMcp(req)
    \/ \E req \in ProbeRequests : GetDiscovery(req)

SpecEnv == InitEnv /\ [][NextEnv]_vars

\* The validator on its own: calls with every token, flow and options,
\* network answers of every kind, and the passing of time.  The
\* introspection endpoint answers 200 with the user record here; SpecO adds
\* the answers without a body.
InitV == Start({Settings(RequiredOAuthEnv)})

NextV ==
    \/ \E token \in Tokens, flow \in Flows, opts \in OptionChoices :
          ValidateAccessToken(token, flow, opts)
    \/ \E i \in 1..MaxFetches, outcome \in JwksOutcomes,
          token \in JwtTokens, opts \in OptionChoices :
          JwksReturn(i, outcome, token, opts)
    \/ \E token \in OpaqueTokens, status \in OpaqueStatuses,
          opts \in OptionChoices :
          OpaqueReturn(token, status, UserBody(token), opts)
    \/ Tick

SpecV == InitV /\ [][NextV]_vars

\* The signed-token flow of the validator on its own, with every shape of
\* the exp and aud claims.
InitJ == Start({Settings(RequiredOAuthEnv)})

NextJ ==
    \/ \E token \in SignedTokens, opts \in OptionChoices :
          ValidateAccessToken(token, "jwt", opts)
    \/ \E i \in 1..MaxFetches, outcome \in JwksOutcomes,
          token \in SignedTokens, opts \in OptionChoices :
          JwksReturn(i, outcome, token, opts)
    \/ Tick

SpecJ == InitJ /\ [][NextJ]_vars

\* The opaque-token flow of the validator on its own, as the middleware calls
\* it, with every status and body the introspection endpoint can answer.
InitO == Start({Settings(RequiredOAuthEnv)})

NextO ==
    \/ \E token \in OpaqueTokens, opts \in OptionChoices :
          ValidateAccessToken(token, "opaque", opts)
    \/ \E token \in OpaqueTokens, status \in OpaqueStatuses,
          opts \in OptionChoices :
          \E body \in OpaqueBodies(token) :
             OpaqueReturn(token, status, body, opts)
    \/ Tick

SpecO == InitO /\ [][NextO]_vars

\* The dispatcher on its own: tools/list, and tools/call with every name,
\* with and without arguments, against every answer of the API client.
InitD == Start({Settings(RequiredOAuthEnv)})

NextD ==
    \/ \E name \in ToolNames, args \in ArgChoices, outcome \in ApiOutcomes :
          CallTool(name, args, outcome)
    \/ ListTools

SpecD == InitD /\ [][NextD]_vars

\* The session registry under close signals: the /mcp routes of a server
\* that runs without authentication, and close signals for any transport.
InitR == Start({Settings(RequiredOAuthEnv \ {"OAUTH_TOKEN_URL"})})

NextR ==
    \/ \E req \in Requests : PostMcp(req)
    \/ \E req \in Requests : GetMcp(req)
    \/ \E req \in Requests : DeleteMcp(req)
    \/ \E t \in 1..MaxTransports : CloseSignal(t)

SpecR == InitR /\ [][NextR]_vars

\* The extension's server provider: the three commands, process exits and
\* the timers of waiting stops, in every order.
InitX == Start({Settings(RequiredOAuthEnv)})

NextX ==
    \/ StartHttpServer
    \/ StopHttpServer
    \/ RestartHttpServer
    \/ \E p \in 1..MaxProcs : ProcessExit(p)
    \/ \E i \in 1..MaxStops : StopTimeout(i)

SpecX == InitX /\ [][NextX]_vars

\* The constructor on its own, under every combination of the five D365_*
\* settings.
InitC == Start({Settings(RequiredOAuthEnv)})

NextC == \E pe \in AllD365Settings : NewD365MCPServer(pe)

SpecC == InitC /\ [][NextC]_vars

TypeOK ==
    /\ env \subseteq RequiredOAuthEnv
    /\ Len(tr) <= MaxTransports
    /\ DOMAIN transports \subseteq UUIDs
    /\ serverTransport \in 0..MaxTransports
    /\ pending \in 0..MaxPending

(* ------------------------------- claims -------------------------------- *)

\* The exchange completed by the last step got past the OAuth middleware.
ReachedHandler(r) == r.verb # "-" /\ r.status # 401

\* C1: a POST without mcp-session-id whose method is 'initialize' creates a
\* new transport; once the transport has handled the handshake, the registry
\* holds exactly one more entry, under an id that was never registered
\* before, and every earlier entry is as it was.
C1_HandshakeRegistersFreshId ==
    [][ (/\ last'.verb = "POST"
         /\ last'.sid = Undefined
         /\ last'.method = "initialize"
         /\ last'.status # 401)
        => /\ Len(tr') = Len(tr) + 1
           /\ last'.created = Len(tr')
           /\ last'.fwd = last'.created
           /\ last'.status = 200 =>
                \E id \in DOMAIN transports' :
                   /\ id \notin everRegistered
                   /\ id \notin DOMAIN transports
                   /\ DOMAIN transports' = DOMAIN transports \cup {id}
                   /\ transports'[id] = last'.created
                   /\ tr'[last'.created].sessionId = id
                   /\ \A k \in DOMAIN transports :
                         transports'[k] = transports[k]
           /\ last'.status # 200 => transports' = transports ]_vars

\* C1 witness: a handshake was accepted while another session was registered.
C1_Witness ==
    /\ last.verb = "POST" /\ last.sid = Undefined
    /\ last.method = "initialize" /\ last.status = 200
    /\ last.created # NoTransport
    /\ Cardinality(DOMAIN transports) = 2

\* C2: a POST carrying a registered session id is forwarded to the transport
\* registered under that id and to no other, creates no transport and leaves
\* the set of registered ids unchanged; a tools/list or tools/call on an
\* established session is accepted.
C2_ReuseRoutesToOwnTransport ==
    [][ (/\ last'.verb = "POST"
         /\ last'.status # 401
         /\ last'.sid \in DOMAIN transports)
        => /\ last'.fwd = transports[last'.sid]
           /\ tr[last'.fwd].sessionId = last'.sid
           /\ last'.created = NoTransport
           /\ Len(tr') = Len(tr)
           /\ DOMAIN transports' = DOMAIN transports
           /\ (last'.ok /\ last'.method \in {"tools/list", "tools/call"})
                 => last'.status = 200 ]_vars

\* C2 witness: a tools/call accepted on one of two registered sessions.
C2_Witness ==
    /\ last.verb = "POST" /\ last.method = "tools/call"
    /\ last.sid \in DOMAIN transports
    /\ last.fwd = transports[last.sid]
    /\ last.status = 200
    /\ Cardinality(DOMAIN transports) = 2

\* C3: a POST without session id whose method is not 'initialize' is answered
\* 400 with JSON-RPC error -32000; no transport is created, nothing is
\* forwarded and the registry is unchanged.
C3_NoSessionNonHandshakeRejected ==
    [][ (/\ last'.verb = "POST"
         /\ last'.sid = Undefined
         /\ last'.method # "initialize"
         /\ last'.status # 401)
        => /\ last'.status = 400
           /\ last'.code = -32000
           /\ last'.fwd = NoTransport
           /\ last'.created = NoTransport
           /\ ~last'.tool
           /\ tr' = tr
           /\ transports' = transports
           /\ serverTransport' = serverTransport ]_vars

\* C3 witness: such a POST was rejected while a session was registered.
C3_Witness ==
    /\ last.verb = "POST" /\ last.sid = Undefined
    /\ last.method = "tools/list"
    /\ last.status = 400 /\ last.code = -32000
    /\ DOMAIN transports # {}

\* C4: for every mcp-session-id header value that is not the key of a
\* registered session, a POST, a GET and a DELETE are answered 400, forward
\* nothing to a transport and leave the registry unchanged.
C4_UnregisteredIdRejected ==
    [][ (/\ ReachedHandler(last')
         /\ last'.sid # Undefined
         /\ last'.sid \notin DOMAIN transports)
        => /\ last'.status = 400
           /\ last'.fwd = NoTransport
           /\ last'.created = NoTransport
           /\ transports' = transports ]_vars

\* C5: a DELETE carrying a registered session id removes that id from the
\* registry; an id that has left the registry never returns to it, and every
\* later POST, GET or DELETE carrying it is answered 400.
C5_DeletedIdStaysInvalid ==
    [][ /\ (/\ last'.verb = "DELETE"
            /\ last'.status # 401
            /\ last'.sid \in DOMAIN transports)
           => /\ last'.status = 200
              /\ last'.sid \notin DOMAIN transports'
              /\ last'.sid \in everRegistered'
        /\ \A k \in everRegistered \ DOMAIN transports :
              k \notin DOMAIN transports'
        /\ (/\ ReachedHandler(last')
            /\ last'.sid \in everRegistered \ DOMAIN transports)
           => /\ last'.status = 400
              /\ last'.fwd = NoTransport
              /\ last'.created = NoTransport ]_vars

\* C5 witness: a request carrying a deleted session id was answered 400.
C5_Witness ==
    /\ last.verb \in {"POST", "GET", "DELETE"}
    /\ last.sid \in everRegistered \ DOMAIN transports
    /\ last.status = 400
    /\ \E t \in 1..Len(tr) : tr[t].closed /\ tr[t].sessionId = last.sid

\* C6: an id is a key of the registry exactly when some transport completed
\* a handshake that generated it and has not been closed; the transport
\* stored under key k has sessionId k; no transport is stored under two keys.
C6_RegistryMatchesLiveSessions ==
    /\ \A k \in UUIDs \cup DOMAIN transports :
          k \in DOMAIN transports
             <=> \E t \in 1..Len(tr) :
                    /\ tr[t].sessionId = k
                    /\ tr[t].initialized
                    /\ ~tr[t].closed
    /\ \A k \in DOMAIN transports :
          /\ transports[k] \in 1..Len(tr)
          /\ tr[transports[k]].sessionId = k
    /\ \A j, k \in DOMAIN transports :
          transports[j] = transports[k] => j = k

\* C6 witness: one session registered, another closed and gone.
C6_Witness ==
    /\ DOMAIN transports # {}
    /\ \E t \in 1..Len(tr) :
          tr[t].closed /\ tr[t].sessionId \notin DOMAIN transports

\* C7: a POST 'initialize' carrying the id of an established session creates
\* no transport and changes neither the registry nor any transport: it goes
\* to the existing session's transport, which rejects it.
C7_SecondHandshakeRejected ==
    [][ (/\ last'.verb = "POST"
         /\ last'.method = "initialize"
         /\ last'.status # 401
         /\ last'.sid \in DOMAIN transports)
        => /\ last'.fwd = transports[last'.sid]
           /\ last'.created = NoTransport
           /\ last'.status \in 400..499
           /\ tr' = tr
           /\ transports' = transports
           /\ issued' = issued ]_vars

\* C7 witness: a well-formed second handshake was rejected by its session.
C7_Witness ==
    /\ last.verb = "POST" /\ last.method = "initialize" /\ last.ok
    /\ last.sid \in DOMAIN transports
    /\ last.fwd = transports[last.sid]
    /\ last.status = 400

\* The Server answers through the transport it is bound to, so a session
\* receives the responses to its requests only while it is that transport.
CanReceive(srv, t) == srv = t

\* C8: a handshake, dispatch or close on one session never changes another
\* live session's registry entry or its ability to receive the responses to
\* its own requests, and a request carrying a session's id is handled by no
\* other session's transport.
C8_SessionsIsolated ==
    [][ \A b \in DOMAIN transports :
          /\ (last'.verb # "-" /\ last'.sid # b)
                => /\ b \in DOMAIN transports'
                   /\ transports'[b] = transports[b]
                   /\ CanReceive(serverTransport, transports[b])
                         => CanReceive(serverTransport', transports[b])
          /\ (ReachedHandler(last') /\ last'.sid = b)
                => last'.fwd \in {NoTransport, transports[b]} ]_vars

\* Authorization header absent or not starting with 'Bearer '.
LacksBearer(h) == h = NoAuthHeader \/ h[1] # "Bearer "

\* C9: with authentication enabled, a POST, GET or DELETE on /mcp whose
\* Authorization header is absent, is not a Bearer credential, or carries a
\* token the validator rejects is answered 401 with WWW-Authenticate and
\* JSON-RPC error -32001; with authentication disabled no request is answered
\* 401 and the validator is never called.
C9_AuthGate ==
    IF RequiredOAuthEnv \subseteq env
    THEN (last.verb \in {"POST", "GET", "DELETE"}
          /\ (LacksBearer(last.auth) \/ last.valid = "invalid"))
            => (last.status = 401 /\ last.www /\ last.code = -32001)
    ELSE last.status # 401 /\ ~validatorCalled /\ pending = 0

\* C9 witness: a DELETE with a rejected token was challenged.
C9_Witness ==
    /\ RequiredOAuthEnv \subseteq env
    /\ last.verb = "DELETE"
    /\ last.valid = "invalid"
    /\ last.status = 401 /\ last.www

\* C10: a request answered 401 by the middleware reaches neither session
\* resolution nor the dispatcher: no transport is created, connected or
\* invoked, no tool handler runs, and the registry is unchanged.
C10_RejectedRequestHasNoEffect ==
    [][ last'.status = 401
        => /\ transports' = transports
           /\ tr' = tr
           /\ serverTransport' = serverTransport
           /\ issued' = issued
           /\ last'.fwd = NoTransport
           /\ last'.created = NoTransport
           /\ ~last'.tool ]_vars

\* C10 witness: a handshake was refused with 401 while a session existed.
C10_Witness ==
    /\ last.status = 401
    /\ last.verb = "POST" /\ last.method = "initialize"
    /\ last.sid = Undefined
    /\ DOMAIN transports # {}

\* C11: authentication is enabled exactly when all five OAuth settings are
\* set and non-empty; under every other configuration no request is
\* challenged, the validator is never called, every request reaches its
\* handler, and start-up has logged that authentication is disabled.
C11_EnabledIffAllFiveSet ==
    /\ OauthEnabled <=> \A k \in RequiredOAuthEnv :
                           processEnv[k] # Undefined /\ processEnv[k] # ""
    /\ OauthEnabled => (LogEnabled \in log /\ LogDisabled \notin log)
    /\ ~OauthEnabled
         => /\ LogDisabled \in log
            /\ last.status # 401
            /\ ~validatorCalled
            /\ pending = 0
            /\ last.path = McpPath => last.status = 400
            /\ last.path = DiscoveryPath => last.status = 404

\* C11 witness: four settings have a value, the fifth is the empty string,
\* and a request without credentials went through to its handler.
C11_Witness ==
    /\ \E k \in RequiredOAuthEnv :
          /\ processEnv[k] = ""
          /\ \A j \in RequiredOAuthEnv \ {k} : processEnv[j] = ValueOf(j)
    /\ last.verb = "POST" /\ last.auth = NoAuthHeader
    /\ last.status = 400

\* C12: a GET of /mcp/.well-known/oauth-protected-resource is answered, with
\* authentication enabled, by the document whose fields resource,
\* authorization_servers, issuer, jwks_uri, token_endpoint,
\* response_types_supported and grant_types_supported come from the
\* configuration, and with authentication disabled by a 404 payload; either
\* way the session registry and the transports are left as they were.
C12_DiscoveryDocument ==
    [][ (last'.verb = "GET" /\ last'.path = DiscoveryPath)
        => /\ OauthEnabled
                => /\ last'.status = 200
                   /\ last'.doc.resource = processEnv["OAUTH_MCP_RESOURCE"]
                   /\ last'.doc.authorization_servers
                         = <<processEnv["OAUTH_AUTH_URL"]>>
                   /\ last'.doc.issuer = processEnv["OAUTH_BASE_URL"]
                   /\ last'.doc.jwks_uri = processEnv["OAUTH_JWKS_URL"]
                   /\ last'.doc.token_endpoint = processEnv["OAUTH_TOKEN_URL"]
                   /\ last'.doc.response_types_supported = <<"code", "token">>
                   /\ last'.doc.grant_types_supported
                         = <<"authorization_code", "client_credentials">>
           /\ ~OauthEnabled
                => /\ last'.status = 404
                   /\ last'.doc = MetadataNotAvailable
           /\ transports' = transports
           /\ tr' = tr
           /\ serverTransport' = serverTransport ]_vars

\* C13: validateAccessToken never throws: whatever the token, the flow (the
\* unsupported ones included) and the outcome of the remote fetch, it
\* resolves either to valid with a payload or to invalid with a non-empty
\* reason.
C13_ValidatorNeverThrows ==
    vres.flow # "-"
    => /\ ~vres.res.threw
       /\ vres.res.valid
            => \/ vres.flow = "jwt" /\ vres.res.payload = vres.token
               \/ vres.flow = "opaque"
                    /\ vres.res.payload \in OpaqueBodies(vres.token)
       /\ ~vres.res.valid
            => vres.res.reason # "" /\ vres.res.payload = NoPayload

\* C13 witness: the key-set fetch failed on the network and the call
\* resolved to invalid with the error's message.
C13_Witness ==
    /\ vres.flow = "jwt"
    /\ vres.status = 0
    /\ ~vres.res.valid
    /\ vres.res.reason = "connect ECONNREFUSED"

\* The exp claim of a finished call's token had not been reached when the
\* token was verified.
ExpInFuture(r) == r.token.exp > r.at

C15_Every2xxAccepted ==
    (vres.flow = "opaque" /\ vres.status # -1)
    => /\ vres.bearer = vres.token.raw
       /\ vres.status \in 200..299
            => /\ vres.res.valid
               /\ vres.res.payload = vres.body
       /\ vres.status \notin 200..299 => ~vres.res.valid

\* C15, amended: the endpoint is called exactly when the cache holds no
\* usable entry for the token, with the token as bearer credential; the
\* call resolves to valid with the response body when the status is 200, and
\* to invalid for every other status, the other 2xx ones included, and for a
\* network failure.
C15_Only200Accepted ==
    [][ /\ (vres'.flow = "opaque" /\ vres'.status # -1)
           => /\ vres'.bearer = vres'.token.raw
              /\ opaqueWait'[vres'.token.raw] = opaqueWait[vres'.token.raw] - 1
              /\ vres'.status = 200
                   => /\ vres'.res.valid
                      /\ vres'.res.payload = vres'.body
              /\ vres'.status # 200 => ~vres'.res.valid
        /\ (vres'.flow = "opaque" /\ vres'.status = -1)
           => /\ UsableEntry(cache, OpaqueKey(DefaultUserApi, vres'.token),
                             clock)
              /\ opaqueWait' = opaqueWait
        /\ \A raw \in OpaqueRaws :
              opaqueWait'[raw] > opaqueWait[raw]
                 => ~UsableEntry(cache, OpaqueKey(DefaultUserApi, NotJws(raw)),
                                 clock) ]_vars

\* C15 witness: the endpoint answered 204 and the token was refused.
C15_Witness ==
    /\ vres.flow = "opaque"
    /\ vres.status = 204
    /\ vres.bearer = vres.token.raw
    /\ ~vres.res.valid

\* C16: of the key-set fetches for one URI that are started, none starts
\* within one TTL of an earlier one that did not fail, whether the earlier
\* one has come back or is still awaited; the next fetch starts only after
\* the TTL has elapsed.
C16_OneFetchPerWindow ==
    \A i, j \in 1..Len(fetchLog) :
       (i < j /\ fetchLog[i].status # "failed")
          => fetchLog[j].start >= fetchLog[i].start + CacheTTL

\* C17: a tools/call for a name outside the catalog is answered by a result
\* flagged as an error that names the tool as unknown, and the API client is
\* not called.
C17_UnknownToolIsErrorResult ==
    [][ (dres'.name \in ToolNames /\ ~HasTool(AllTools, dres'.name))
        => /\ dres'.rpc = "result"
           /\ dres'.isError
           /\ dres'.text = "Unknown tool: " \o dres'.name
           /\ dres'.called = NoApiCall
           /\ apiCalls' = apiCalls ]_vars

\* C18: for every tool of the catalog and every answer of the API client, the
\* result is flagged as an error exactly when the client answered
\* success:false; it then carries the client's error message, and otherwise
\* the client's data.
C18_ErrorFlagFollowsClient ==
    [][ (HasTool(AllTools, dres'.name) /\ dres'.called # NoApiCall)
        => /\ dres'.rpc = "result"
           /\ dres'.isError <=> ~dres'.outcome.success
           /\ ~dres'.outcome.success
                => dres'.text = ErrorPrefix(dres'.name) \o dres'.outcome.error
           /\ dres'.outcome.success
                => dres'.text = Stringify(dres'.outcome.data) ]_vars

\* The exchange completed by the last step raised a fault in its handler:
\* the registry read gave a value that is not a transport.
Faulted(r, reg) ==
    /\ r.verb \in {"POST", "GET", "DELETE"}
    /\ r.path = McpPath
    /\ r.status # 401
    /\ Lookup(reg, r.sid) = InheritedValue

\* C19: every POST, GET or DELETE on /mcp whose handling raises an
\* unanticipated fault before any header is sent is still answered, with
\* HTTP 500 and JSON-RPC error -32603.
C19_FaultAnswered500 ==
    [][ Faulted(last', transports)
        => /\ last'.status = 500
           /\ last'.code = -32603 ]_vars

\* C20: when the channel of a registered session closes, by a DELETE or by
\* the client dropping its push channel, the session is deregistered, so
\* that its push channel cannot be opened again.  The handler of the closing
\* event is the only code that runs for it, so what that step leaves in the
\* registry is what stays there.
C20_ClosedSessionDeregistered ==
    [][ (\/ last'.verb = "CLOSE"
         \/ last'.verb = "DELETE" /\ last'.status = 200)
        => /\ last'.sid \notin DOMAIN transports'
           /\ tr'[last'.fwd].closed ]_vars

\* C21: constructing D365MCPServer throws "Missing required environment
\* variables: ..." listing exactly the unset or empty D365_* keys if and only
\* if at least one of the five is unset or empty; when it throws, no API
\* client, protocol server or tool handler has been created.
C21_ConstructorValidatesEnv ==
    built.called =>
        LET absent == {k \in D365Keys : built.env[k] \in {Undefined, ""}}
            Listed(k) == k \in absent
            listing == SelectSeq(RequiredD365, Listed) IN
        /\ built.threw <=> absent # {}
        /\ built.threw =>
              /\ {listing[i] : i \in 1..Len(listing)} = absent
              /\ built.message = MissingPrefix \o Join(listing)
              /\ built.apiClient = NoClient
              /\ built.server = Undefined
              /\ built.handlers = {}

\* A constructor call with one setting empty, another unset and the rest set
\* has thrown, naming the two.
C21_Witness ==
    /\ built.called /\ built.threw
    /\ built.env["D365_CLIENT_ID"] = ""
    /\ built.env["D365_RESOURCE"] = Undefined
    /\ built.env["D365_BASE_URL"] = ValueOf("D365_BASE_URL")
    /\ built.message = "Missing required environment variables: D365_CLIENT_ID, D365_RESOURCE"

\* The two cache keys the validator uses in this model.
TheJwksKey == JwksKey(JwksUri)
TheOpaqueKey(token) == OpaqueKey(DefaultUserApi, token)

\* Every entry but the one under `key` is the same before and after.
OthersUntouched(key) ==
    \A k \in DOMAIN cache \ {key} : k \in DOMAIN cache' /\ cache'[k] = cache[k]

\* The step was a lookup of `key` that reported a miss: the entry, if there
\* was one, had expiry <= now and is gone, and nothing else changed.
MissedLookup(key) ==
    /\ key \in DOMAIN cache => cache[key].expiry <= clock
    /\ key \notin DOMAIN cache'
    /\ OthersUntouched(key)

\* The step was a lookup of `key` that returned `data`: the entry is there,
\* now < expiry, the data is the entry's, and the cache is as it was.
HitLookup(key, data) ==
    /\ key \in DOMAIN cache
    /\ clock < cache[key].expiry
    /\ data = cache[key].data
    /\ cache' = cache

\* C22: a cache lookup returns an entry's data only if now < expiry; a lookup
\* that finds an entry with expiry <= now deletes it and reports a miss; a
\* lookup leaves the entries of other keys untouched; a store sets the expiry
\* to the time of the store plus the configured TTL.  In a step: a remote
\* call is started only after a lookup that missed or that returned an empty
\* body, which the caller takes for nothing; a call that finished
\* without a remote call used an unexpired entry; an entry disappears only
\* once expired, and appears or changes only through a store made now.
C22_CacheLookupAndStore ==
    [][/\ Len(fetchLog') > Len(fetchLog) => MissedLookup(TheJwksKey)
       /\ \A raw \in OpaqueRaws :
             opaqueWait'[raw] > opaqueWait[raw]
                => \/ MissedLookup(TheOpaqueKey(NotJws(raw)))
                   \/ HitLookup(TheOpaqueKey(NotJws(raw)), EmptyBody)
       /\ (vres'.flow = "opaque" /\ vres'.status = -1)
             => HitLookup(TheOpaqueKey(vres'.token), vres'.res.payload)
       /\ (vres'.flow = "jwt" /\ vres'.status = -1
              /\ vres'.token.form = "jws" /\ vres'.opts.jwksUri # Undefined)
             => /\ HitLookup(TheJwksKey, cache[TheJwksKey].data)
                /\ vres'.keys = KeysOf(cache[TheJwksKey].data)
       /\ \A k \in DOMAIN cache \ DOMAIN cache' : cache[k].expiry <= clock
       /\ \A k \in DOMAIN cache' :
             (k \notin DOMAIN cache \/ cache'[k] # cache[k])
                => cache'[k].expiry = clock + CacheTTL
      ]_vars

\* The key set stored by the first fetch has expired and a later lookup has
\* evicted it and started a second fetch.
C22_Witness ==
    /\ Len(fetchLog) = 2
    /\ fetchLog[1].status = "ok"
    /\ fetchLog[2].status = "pending"
    /\ fetchLog[2].start >= fetchLog[1].start + CacheTTL
    /\ cache = EmptyCache

\* C23: the tools/call handler never throws: for every tool name, in or out
\* of the catalog, and every arguments value, absent arguments included, the
\* request is answered with a structured result, not with a rejection.
C23_CallToolNeverThrows ==
    dres.name \in ToolNames => dres.rpc = "result"

\* The exchange is a dispatch (a POST that is not a handshake) or a
\* push-channel GET that was handed to a transport.
ForwardedDispatch(r) ==
    /\ r.path = McpPath
    /\ \/ r.verb = "POST" /\ r.method # "initialize"
       \/ r.verb = "GET"
    /\ r.fwd # NoTransport

\* C24: no dispatch and no push-channel GET is forwarded to a session's
\* transport before that session's handshake has completed: a request is
\* forwarded under id s only if s was registered by an earlier completed
\* handshake, on the transport of that handshake, whatever requests are
\* suspended in between.
C24_HandshakeBeforeDispatch ==
    [][ ForwardedDispatch(last')
        => /\ last'.sid \in everRegistered
           /\ last'.sid \in DOMAIN transports
           /\ last'.fwd = transports[last'.sid]
           /\ last'.fwd \in 1..Len(tr)
           /\ tr[last'.fwd].initialized
           /\ tr[last'.fwd].sessionId = last'.sid
           /\ last'.created = NoTransport ]_vars

\* C24 witness: with authentication on, a tools/list was forwarded on the
\* first session after a second session's handshake had completed.
C24_Witness ==
    /\ ForwardedDispatch(last)
    /\ last.verb = "POST" /\ last.method = "tools/list"
    /\ last.status = 200
    /\ last.fwd = 1
    /\ Len(tr) = 2 /\ tr[2].initialized
    /\ last.valid = "valid"

\* C25: removing a session is idempotent: a close signal for a session whose
\* id is no longer in the registry leaves the registry unchanged and raises
\* no error; a close signal for a transport without session id removes
\* nothing; closing one session never removes another session's entry.
C25_CloseIdempotent ==
    [][ last'.verb = "ONCLOSE"
        => LET t == last'.fwd
               sid == tr[t].sessionId IN
           /\ last'.status # 500 /\ last'.code = 0
           /\ sid \notin DOMAIN transports => transports' = transports
           /\ sid = Undefined => transports' = transports
           /\ DOMAIN transports' = DOMAIN transports \ {sid}
           /\ \A k \in DOMAIN transports' : transports'[k] = transports[k]
      ]_vars

\* C25 witness: a close signal came for a session whose id had already been
\* removed, while another session was registered.
C25_Witness ==
    /\ last.verb = "ONCLOSE"
    /\ last.sid \in UUIDs
    /\ ~last.delivered
    /\ Cardinality(DOMAIN transports) = 1

\* C26: with authentication enabled, the protected-resource metadata location
\* named in the 401 challenge can be fetched without a bearer credential: a
\* GET on it that carries no Authorization header is answered with the
\* discovery document, not with 401.
C26_MetadataReachableUnauthenticated ==
    [][ (/\ OauthEnabled
         /\ last'.verb = "GET"
         /\ last'.path = DiscoveryPath
         /\ last'.auth = NoAuthHeader)
        => /\ last'.status # 401
           /\ ~last'.www
           /\ last'.doc = Metadata ]_vars

\* A key-set document is cached for the URI and has not expired.
KeySetCached == TheJwksKey \in DOMAIN cache /\ clock < cache[TheJwksKey].expiry

\* The call that just finished was a signed-token validation that got as
\* far as the key set and made no remote call.
ServedFromCache(r) ==
    /\ r.flow = "jwt" /\ r.status = -1
    /\ r.token.form = "jws" /\ r.opts.jwksUri # Undefined

C28_OpaqueCacheServesHits ==
    [][ \A raw \in OpaqueRaws :
          LET key == TheOpaqueKey(NotJws(raw)) IN
          /\ (key \in DOMAIN cache'
                 /\ (key \notin DOMAIN cache \/ cache'[key] # cache[key]))
             => /\ vres'.flow = "opaque" /\ vres'.token.raw = raw
                /\ vres'.status = 200
                /\ cache'[key].data = vres'.body
          /\ (vres'.flow = "opaque" /\ vres'.token.raw = raw
                 /\ vres'.status \notin {-1, 200})
             => cache' = cache
          /\ CacheHit(cache, key, clock)
             => /\ opaqueWait'[raw] <= opaqueWait[raw]
                /\ (vres'.flow = "opaque" /\ vres'.token.raw = raw
                       /\ vres'.status = -1)
                   => /\ vres'.res.valid
                      /\ vres'.res.payload = cache[key].data
      ]_vars

\* The call that just finished verified a correctly signed token against a
\* key set that holds the token's key.
Verified(r) ==
    /\ r.flow = "jwt" /\ r.token.form = "jws"
    /\ r.token.kid \in r.keys
    /\ r.token.sig = "good"

\* C29: in the signed-token flow the expiry check and the audience check
\* apply only when their input is present: a correctly signed token without
\* exp claim passes the expiry check; without a configured expected audience
\* any audience passes the audience check; with one configured, the token is
\* accepted only if its aud claim is a single value equal to it.
C29_ChecksOnlyWhenPresent ==
    Verified(vres)
    => LET expOK == vres.token.exp = NoExp \/ ExpInFuture(vres)
           audOK == \/ vres.opts.expectedAudience = Undefined
                    \/ vres.token.aud = vres.opts.expectedAudience
       IN /\ vres.token.exp = NoExp
               => vres.res.reason \notin {"jwt expired", "Token expired"}
          /\ vres.opts.expectedAudience = Undefined
               => vres.res.reason # "Token audience mismatch"
          /\ vres.res.valid <=> (expOK /\ audOK)
          /\ (vres.res.valid /\ vres.opts.expectedAudience # Undefined)
               => vres.token.aud = vres.opts.expectedAudience

\* C29 witness: a correctly signed token without exp claim was accepted at
\* the last tick of the clock, against the configured expected audience.
C29_Witness ==
    /\ Verified(vres)
    /\ vres.token.exp = NoExp
    /\ vres.opts.expectedAudience = ExpectedAud
    /\ vres.at = MaxClock
    /\ vres.res.valid

\* The most recently spawned process, if it has not exited.
LatestRunning(ps) ==
    IF Len(ps) > 0 /\ ps[Len(ps)] = "running" THEN Len(ps) ELSE NoProcess

\* C30: in the extension's server provider, across every interleaving of
\* startHttpServer, stopHttpServer, restartHttpServer and process exits, the
\* tracked httpServer reference is non-null exactly when the most recently
\* spawned process has been started and has not exited; the exit of an
\* earlier process and the completion of an earlier stop never clear the
\* reference to a newer running process; and startHttpServer while a server
\* is tracked spawns no second process.
C30_TrackedIffLatestRunning ==
    [][/\ (httpServer' # NoProcess) <=> (LatestRunning(procs') # NoProcess)
       /\ (/\ xop'.op \in {"exit", "timeout"}
           /\ httpServer # NoProcess
           /\ httpServer # xop'.proc
           /\ procs'[httpServer] = "running")
          => httpServer' = httpServer
       /\ (xop'.op = "start" /\ httpServer # NoProcess)
          => /\ procs' = procs
             /\ httpServer' = httpServer
      ]_vars

====
